---- MODULE Spec2Model ----
(***************************************************************************)
(* The bill_of_materials computation of the SpaceMolt crafting server:     *)
(* Engine.BillOfMaterials and topologicalSort (engine package), over the   *)
(* recipe catalog served by db.RecipeStore.                                 *)
(*                                                                         *)
(* Go maps are modelled as functions whose DOMAIN is the set of keys       *)
(* present; a `range` over a map visits the keys in an arbitrary order,    *)
(* so every such loop picks any key not yet visited.  A SQL query without  *)
(* ORDER BY returns its rows in an arbitrary order in the same way.        *)
(***************************************************************************)
EXTENDS Integers, Sequences, FiniteSets, TLC

(***************************************************************************)
(* Bounds of the model.                                                    *)
(***************************************************************************)
\* Largest number of recipes of a catalog drawn from RecipePool.
MaxRecipes == 3
\* Largest requested quantity; requests range over -1..MaxQuantity.
MaxQuantity == 2

(***************************************************************************)
(* Identifiers.  Go compares strings bytewise; SortedIDs lists every       *)
(* identifier of the model in that order.                                  *)
(***************************************************************************)
SortedIDs ==
    << "alt_c", "craft_a", "craft_b", "craft_c",
       "craft_scanner_1", "craft_sensor_unit", "crystal_lens", "forge_b",
       "grind_lens", "item_a", "item_b", "item_c",
       "loop_b", "loop_c", "ore_copper", "ore_crystal",
       "ore_palladium", "ore_silicon", "ore_x", "ore_y",
       "quick_a", "refine_circuits", "refined_circuits", "scanner_1",
       "self_c", "sensor_unit", "unknown_recipe" >>

Rank(s) ==
    CHOOSE n \in 1..Len(SortedIDs) : SortedIDs[n] = s

\* a < b on Go strings
StrLess(a, b) ==
    Rank(a) < Rank(b)

(***************************************************************************)
(* crafting.Recipe, crafting.RecipeComponent, crafting.RecipeOutput        *)
(***************************************************************************)
RecipeComponent(id, qty) ==
    [ComponentID |-> id, Quantity |-> qty]

Recipe(id, time, comps, outItem, outQty) ==
    [ID |-> id, CraftTimeSec |-> time, Components |-> comps,
     Output |-> [ItemID |-> outItem, Quantity |-> outQty]]

\* the value of a nil *crafting.Recipe
NilRecipe ==
    Recipe("", 0, <<>>, "", 0)

(***************************************************************************)
(* Catalogs.  The literal catalog of the README's bill_of_materials        *)
(* example, and every catalog of at most MaxRecipes recipes of a pool that *)
(* holds competing recipes for one output, diamonds, simultaneous leaves,  *)
(* and cycles (two recipes, self-consumption, away from the target), and a  *)
(* four-recipe catalog whose target recipe is not the canonical producer   *)
(* of its output.                                                          *)
(***************************************************************************)
ScannerCatalog ==
    { Recipe("craft_scanner_1", 12,
             << RecipeComponent("sensor_unit", 1),
                RecipeComponent("refined_circuits", 2),
                RecipeComponent("ore_crystal", 3) >>, "scanner_1", 1),
      Recipe("craft_sensor_unit", 10,
             << RecipeComponent("refined_circuits", 1),
                RecipeComponent("crystal_lens", 1),
                RecipeComponent("ore_copper", 3) >>, "sensor_unit", 1),
      Recipe("refine_circuits", 5,
             << RecipeComponent("ore_copper", 6),
                RecipeComponent("ore_silicon", 3) >>, "refined_circuits", 2),
      Recipe("grind_lens", 8,
             << RecipeComponent("ore_crystal", 8),
                RecipeComponent("ore_palladium", 2) >>, "crystal_lens", 1) }

RecipePool ==
    { Recipe("craft_a", 3, << RecipeComponent("item_b", 1),
                              RecipeComponent("item_c", 7) >>, "item_a", 1),
      Recipe("quick_a", 1, << RecipeComponent("ore_x", 1) >>, "item_a", 2),
      Recipe("craft_b", 2, << RecipeComponent("ore_x", 3) >>, "item_b", 1),
      Recipe("forge_b", 2, << RecipeComponent("item_c", 1),
                              RecipeComponent("ore_x", 1) >>, "item_b", 2),
      Recipe("loop_b", 2, << RecipeComponent("item_a", 1),
                             RecipeComponent("item_c", 1) >>, "item_b", 2),
      Recipe("craft_c", 1, << RecipeComponent("ore_x", 2) >>, "item_c", 3),
      Recipe("alt_c", 1, << RecipeComponent("ore_y", 1) >>, "item_c", 3),
      Recipe("loop_c", 0, << RecipeComponent("item_b", 1) >>, "item_c", 1),
      Recipe("self_c", 0, << RecipeComponent("item_c", 1),
                             RecipeComponent("ore_y", 1) >>, "item_c", 1) }

\* craft_a is not the canonical producer of item_a (quick_a is), its component
\* item_b requires item_a again, and item_c is required both by craft_a and
\* by item_b
OverrideCatalog ==
    { r \in RecipePool : r.ID \in {"craft_a", "quick_a", "loop_b", "craft_c"} }

Catalogs ==
    { c \in SUBSET RecipePool : Cardinality(c) <= MaxRecipes }
       \cup {ScannerCatalog, OverrideCatalog}

(***************************************************************************)
(* Go maps                                                                 *)
(***************************************************************************)
EmptyMap ==
    [x \in {} |-> 0]

\* m[k], the zero value when k is absent
MapGet(m, k, zero) ==
    IF k \in DOMAIN m THEN m[k] ELSE zero

\* m[k] = v
MapPut(m, k, v) ==
    [x \in (DOMAIN m) \cup {k} |-> IF x = k THEN v ELSE m[x]]

(***************************************************************************)
(* Errors and responses                                                    *)
(***************************************************************************)
NoError ==
    [msg |-> "", arg |-> ""]

ErrRecipeNotFound(id) ==
    [msg |-> "recipe not found: %s", arg |-> id]

ErrDfsCycle(itemID) ==
    [msg |-> "cycle detected: item %s has circular dependency", arg |-> itemID]

ErrTopoCycle ==
    [msg |-> "topological sort: cycle detected in recipe dependencies", arg |-> ""]

\* a nil *crafting.BillOfMaterialsResponse
NilResponse ==
    [RecipeID |-> "", OutputItemID |-> "", Quantity |-> 0, RawMaterials |-> <<>>,
     Intermediates |-> <<>>, CraftSteps |-> <<>>, TotalCraftTime |-> 0, isNil |-> TRUE]

VARIABLES
    recipes,         \* the recipes table with its recipe_components rows
    pc,              \* position of BillOfMaterials: idle, load, select, dfs, ...
    asked,           \* the quantity of the request as received
    req,             \* crafting.BillOfMaterialsRequest after the defaults
    targetRecipe,
    allRecipes,      \* rows of GetAllRecipes the selector loop has not visited yet
    outputToRecipe,
    craftableItems,
    visited,
    pathStack,
    stack,           \* active dfs calls: <<[itemID, i]>>, innermost last
    rootIdx,         \* next component of the loop that starts the DFS
    inDegree,
    adjacency,
    toRange,         \* keys of craftable that topologicalSort has not visited yet
    queue,
    sorted,
    sortedBottomUp,
    sortedTopDown,
    demandIdx,       \* next position of the demand loop in sortedTopDown
    demand,
    craftRuns,
    resp,
    err,
    prev,            \* the outcome of the latest completed call
    cq,              \* craft_query: the call being answered, request and response
    mcp              \* the MCP server: position of Run, stdin, stdout, request in hand

vars ==
    << recipes, pc, asked, req, targetRecipe, allRecipes, outputToRecipe,
       craftableItems, visited, pathStack, stack, rootIdx, inDegree, adjacency,
       toRange, queue, sorted, sortedBottomUp, sortedTopDown, demandIdx, demand,
       craftRuns, resp, err, prev, cq, mcp >>

NoRequest ==
    [RecipeID |-> "", Quantity |-> 0]

NoOutcome ==
    [asked |-> 0, req |-> NoRequest, resp |-> NilResponse, err |-> NoError]

\* no craft_query call is being answered
NoQuery ==
    [asked |-> 0, req |-> <<>>, resp |-> <<>>]

\* a JSON value of a request line: its type and its text; NoValue is a member
\* that is not there
NoValue ==
    [type |-> "absent", text |-> ""]

\* no "params" member
NoParams ==
    [kind |-> "absent", name |-> "", arguments |-> "absent", recipe_id |-> "",
     quantity |-> 0]

\* no line in hand
NoLine ==
    [wellFormed |-> FALSE, id |-> NoValue, method |-> NoValue, params |-> NoParams]

\* the nil any of Response.Result
NilResult ==
    [kind |-> "nil", text |-> NilResponse]

\* a Go error of the server: the text put before the error it wraps
ServerError(prefix, cause) ==
    [prefix |-> prefix, cause |-> cause]

\* the nil error
NoServerError ==
    ServerError("", NoError)

\* the nil *Error of Response.Error
NilRPCError ==
    [Code |-> 0, Message |-> NoServerError]

\* the nil *Response
NilRPCResponse ==
    [ID |-> NoValue, Result |-> NilResult, Error |-> NilRPCError]

\* Run has not been called
NotRunning ==
    [pc |-> "off", stdin |-> <<>>, seen |-> <<>>, stdout |-> <<>>, line |-> NoLine,
     resp |-> NilRPCResponse]

Init ==
    /\ recipes \in Catalogs
    /\ cq = NoQuery
    /\ mcp = NotRunning
    /\ pc = "idle"
    /\ asked = 0
    /\ req = NoRequest
    /\ targetRecipe = NilRecipe
    /\ allRecipes = {}
    /\ outputToRecipe = EmptyMap
    /\ craftableItems = EmptyMap
    /\ visited = {}
    /\ pathStack = {}
    /\ stack = <<>>
    /\ rootIdx = 0
    /\ inDegree = EmptyMap
    /\ adjacency = EmptyMap
    /\ toRange = {}
    /\ queue = <<>>
    /\ sorted = <<>>
    /\ sortedBottomUp = <<>>
    /\ sortedTopDown = <<>>
    /\ demandIdx = 0
    /\ demand = EmptyMap
    /\ craftRuns = EmptyMap
    /\ resp = NilResponse
    /\ err = NoError
    /\ prev = NoOutcome

(***************************************************************************)
(* RecipeStore                                                             *)
(***************************************************************************)
\* the query without its WHERE id = ? clause: every row is a match
GetRecipeAnyRow(id) ==
    recipes

\* GetRecipe: the rows with this id (at most one: id is the primary key)
GetRecipe(id) ==
    { r \in recipes : r.ID = id }

\* GetAllRecipes: every row, each with its components
GetAllRecipes ==
    recipes

\* the recipe ids a caller asks for: those of the catalog and one it lacks
RequestIDs ==
    { r.ID : r \in recipes } \cup {"unknown_recipe"}

(***************************************************************************)
(* BillOfMaterials: defaults and target lookup                             *)
(***************************************************************************)
\* if req.Quantity == 0 { req.Quantity = 1 }: a negative quantity stays
ApplyDefaultsZeroOnly(quantity) ==
    IF quantity = 0 THEN 1 ELSE quantity

\* if req.Quantity <= 0 { req.Quantity = 1 }
ApplyDefaults(quantity) ==
    IF quantity <= 0 THEN 1 ELSE quantity

Call ==
    /\ pc = "idle"
    /\ \E id \in RequestIDs, quantity \in -1..MaxQuantity :
         /\ asked' = quantity
         /\ req' = [RecipeID |-> id, Quantity |-> ApplyDefaults(quantity)]
         /\ IF GetRecipe(id) = {}
               THEN /\ targetRecipe' = NilRecipe
                    /\ err' = ErrRecipeNotFound(id)
                    /\ pc' = "done"
               ELSE /\ targetRecipe' = CHOOSE r \in GetRecipe(id) : TRUE
                    /\ err' = NoError
                    /\ pc' = "load"
    /\ UNCHANGED << mcp, cq, recipes, allRecipes, outputToRecipe, craftableItems, visited,
                    pathStack, stack, rootIdx, inDegree, adjacency, toRange, queue,
                    sorted, sortedBottomUp, sortedTopDown, demandIdx, demand,
                    craftRuns, resp, prev >>

LoadAll ==
    /\ pc = "load"
    /\ allRecipes' = GetAllRecipes
    /\ outputToRecipe' = EmptyMap
    /\ pc' = "select"
    /\ UNCHANGED << mcp, cq, recipes, asked, req, targetRecipe, craftableItems, visited,
                    pathStack, stack, rootIdx, inDegree, adjacency, toRange, queue,
                    sorted, sortedBottomUp, sortedTopDown, demandIdx, demand,
                    craftRuns, resp, err, prev >>

(***************************************************************************)
(* BillOfMaterials: the output -> recipe map                               *)
(***************************************************************************)
\* the comparison without its last rule: on a full tie the first one seen stays
ReplaceWithoutIDRule(newRecipe, existing) ==
    \/ newRecipe.CraftTimeSec < existing.CraftTimeSec
    \/ /\ newRecipe.CraftTimeSec = existing.CraftTimeSec
       /\ newRecipe.Output.Quantity > existing.Output.Quantity

\* whether newRecipe replaces existing as the recipe of their output item
Replace(newRecipe, existing) ==
    IF newRecipe.CraftTimeSec < existing.CraftTimeSec
       THEN TRUE
       ELSE IF newRecipe.CraftTimeSec = existing.CraftTimeSec
               THEN IF newRecipe.Output.Quantity > existing.Output.Quantity
                       THEN TRUE
                       ELSE IF newRecipe.Output.Quantity = existing.Output.Quantity
                               THEN StrLess(newRecipe.ID, existing.ID)
                               ELSE FALSE
               ELSE FALSE

\* one iteration of the loop over allRecipes
SelectRecipe(map, r) ==
    IF r.Output.ItemID \notin DOMAIN map
       THEN MapPut(map, r.Output.ItemID, r)
       ELSE IF Replace(r, map[r.Output.ItemID])
               THEN MapPut(map, r.Output.ItemID, r)
               ELSE map

SelectStep ==
    /\ pc = "select"
    /\ \E r \in allRecipes :
         /\ outputToRecipe' = SelectRecipe(outputToRecipe, r)
         /\ allRecipes' = allRecipes \ {r}
    /\ UNCHANGED << mcp, cq, recipes, pc, asked, req, targetRecipe, craftableItems, visited,
                    pathStack, stack, rootIdx, inDegree, adjacency, toRange, queue,
                    sorted, sortedBottomUp, sortedTopDown, demandIdx, demand,
                    craftRuns, resp, err, prev >>

\* the loop is over: the DFS starts with the target recipe recorded
SelectDone ==
    /\ pc = "select"
    /\ allRecipes = {}
    /\ craftableItems' = MapPut(EmptyMap, targetRecipe.Output.ItemID, targetRecipe)
    /\ visited' = {}
    /\ pathStack' = {}
    /\ stack' = <<>>
    /\ rootIdx' = 1
    /\ pc' = "dfs"
    /\ UNCHANGED << mcp, cq, recipes, asked, req, targetRecipe, allRecipes, outputToRecipe,
                    inDegree, adjacency, toRange, queue, sorted, sortedBottomUp,
                    sortedTopDown, demandIdx, demand, craftRuns, resp, err, prev >>

(***************************************************************************)
(* BillOfMaterials: the closure-building DFS                               *)
(***************************************************************************)
\* the entry checks without the visited test: only the path is looked at
DfsEntryPathOnly(itemID) ==
    IF itemID \in pathStack THEN "cycle"
    ELSE IF itemID \notin DOMAIN outputToRecipe THEN "raw"
    ELSE "descend"

\* what a call dfs(itemID) does on entry, the checks in the order of the code
DfsEntry(itemID) ==
    IF itemID \in visited THEN "visited"
    ELSE IF itemID \in pathStack THEN "cycle"
    ELSE IF itemID \notin DOMAIN outputToRecipe THEN "raw"
    ELSE "descend"

\* the call dfs(itemID), made with the caller's frames being callers
DfsCall(itemID, callers) ==
    LET entry == DfsEntry(itemID) IN
    /\ visited' = IF entry \in {"raw", "descend"} THEN visited \cup {itemID} ELSE visited
    /\ pathStack' = IF entry = "descend" THEN pathStack \cup {itemID} ELSE pathStack
    /\ craftableItems' = IF entry = "descend"
                            THEN MapPut(craftableItems, itemID, outputToRecipe[itemID])
                            ELSE craftableItems
    /\ stack' = IF entry = "descend"
                   THEN Append(callers, [itemID |-> itemID, i |-> 1])
                   ELSE IF entry = "cycle" THEN <<>> ELSE callers
    /\ err' = IF entry = "cycle" THEN ErrDfsCycle(itemID) ELSE err
    /\ pc' = IF entry = "cycle" THEN "done" ELSE pc

\* every dfs call ranges over the components of the target recipe
FrameComponentsOfTarget ==
    targetRecipe.Components

\* the components the innermost active loop ranges over
FrameComponents ==
    IF stack = <<>>
       THEN targetRecipe.Components
       ELSE outputToRecipe[stack[Len(stack)].itemID].Components

FrameIdx ==
    IF stack = <<>> THEN rootIdx ELSE stack[Len(stack)].i

\* the next iteration of the innermost loop: dfs(comp.ComponentID)
DfsVisit ==
    /\ pc = "dfs"
    /\ FrameIdx <= Len(FrameComponents)
    /\ LET comp == FrameComponents[FrameIdx] IN
         IF stack = <<>>
            THEN /\ rootIdx' = rootIdx + 1
                 /\ DfsCall(comp.ComponentID, stack)
            ELSE /\ rootIdx' = rootIdx
                 /\ DfsCall(comp.ComponentID,
                            [stack EXCEPT ![Len(stack)].i = FrameIdx + 1])
    /\ UNCHANGED << mcp, cq, recipes, asked, req, targetRecipe, allRecipes, outputToRecipe,
                    inDegree, adjacency, toRange, queue, sorted, sortedBottomUp,
                    sortedTopDown, demandIdx, demand, craftRuns, resp, prev >>

\* a dfs call has visited all its components: delete(pathStack, itemID); return nil
DfsReturn ==
    /\ pc = "dfs"
    /\ stack # <<>>
    /\ FrameIdx > Len(FrameComponents)
    /\ pathStack' = pathStack \ {stack[Len(stack)].itemID}
    /\ stack' = SubSeq(stack, 1, Len(stack) - 1)
    /\ UNCHANGED << mcp, cq, recipes, pc, asked, req, targetRecipe, allRecipes, outputToRecipe,
                    craftableItems, visited, rootIdx, inDegree, adjacency, toRange,
                    queue, sorted, sortedBottomUp, sortedTopDown, demandIdx, demand,
                    craftRuns, resp, err, prev >>

\* the loop over the target's components is over: topologicalSort(craftableItems)
DfsDone ==
    /\ pc = "dfs"
    /\ stack = <<>>
    /\ rootIdx > Len(targetRecipe.Components)
    /\ inDegree' = EmptyMap
    /\ adjacency' = EmptyMap
    /\ toRange' = DOMAIN craftableItems
    /\ pc' = "topoBuild"
    /\ UNCHANGED << mcp, cq, recipes, asked, req, targetRecipe, allRecipes, outputToRecipe,
                    craftableItems, visited, pathStack, stack, rootIdx, queue, sorted,
                    sortedBottomUp, sortedTopDown, demandIdx, demand, craftRuns,
                    resp, err, prev >>

(***************************************************************************)
(* topologicalSort                                                         *)
(***************************************************************************)
\* the loop left after the first craftable component: one dependency per recipe
CraftableComponentsFirstOnly(recipe, craftable) ==
    LET all == SelectSeq(recipe.Components,
                         LAMBDA comp : comp.ComponentID \in DOMAIN craftable)
    IN  IF all = <<>> THEN <<>> ELSE << Head(all) >>

\* the components of recipe that are craftable, in the order of the recipe
CraftableComponents(recipe, craftable) ==
    SelectSeq(recipe.Components, LAMBDA comp : comp.ComponentID \in DOMAIN craftable)

\* adjacency[comp.ComponentID] = append(adjacency[comp.ComponentID], itemID), per comp
RECURSIVE AddEdges(_, _, _)
AddEdges(adj, comps, itemID) ==
    IF comps = <<>>
       THEN adj
       ELSE AddEdges(MapPut(adj, Head(comps).ComponentID,
                            Append(MapGet(adj, Head(comps).ComponentID, <<>>), itemID)),
                     Tail(comps), itemID)

\* one iteration of the loop that builds inDegree and adjacency
TopoBuild ==
    /\ pc = "topoBuild"
    /\ \E itemID \in toRange :
         LET deps == CraftableComponents(craftableItems[itemID], craftableItems) IN
         /\ inDegree' = MapPut(inDegree, itemID, MapGet(inDegree, itemID, 0) + Len(deps))
         /\ adjacency' = AddEdges(adjacency, deps, itemID)
         /\ toRange' = toRange \ {itemID}
    /\ UNCHANGED << mcp, cq, recipes, pc, asked, req, targetRecipe, allRecipes, outputToRecipe,
                    craftableItems, visited, pathStack, stack, rootIdx, queue, sorted,
                    sortedBottomUp, sortedTopDown, demandIdx, demand, craftRuns,
                    resp, err, prev >>

\* every sequence that lists each element of S once
Orders(S) ==
    { q \in [1..Cardinality(S) -> S] : \A x \in S : \E n \in DOMAIN q : q[n] = x }

\* the items the loop over inDegree puts in the queue
InitialReady(degrees) ==
    { itemID \in DOMAIN degrees : degrees[itemID] = 0 }

\* the loop over inDegree that finds the nodes with no incoming edges
TopoFindReady ==
    /\ pc = "topoBuild"
    /\ toRange = {}
    /\ queue' \in Orders(InitialReady(inDegree))
    /\ sorted' = <<>>
    /\ pc' = "topoLoop"
    /\ UNCHANGED << mcp, cq, recipes, asked, req, targetRecipe, allRecipes, outputToRecipe,
                    craftableItems, visited, pathStack, stack, rootIdx, inDegree,
                    adjacency, toRange, sortedBottomUp, sortedTopDown, demandIdx,
                    demand, craftRuns, resp, err, prev >>

\* the loop over adjacency[current]: [inDegree, queue] after it
RECURSIVE ReduceInDegree(_, _, _)
ReduceInDegree(degrees, q, dependents) ==
    IF dependents = <<>>
       THEN [inDegree |-> degrees, queue |-> q]
       ELSE LET dependent == Head(dependents)
                d == MapGet(degrees, dependent, 0) - 1
            IN  ReduceInDegree(MapPut(degrees, dependent, d),
                               IF d = 0 THEN Append(q, dependent) ELSE q,
                               Tail(dependents))

\* one iteration of the loop over the queue
TopoDequeue ==
    /\ pc = "topoLoop"
    /\ queue # <<>>
    /\ LET current == Head(queue)
           after == ReduceInDegree(inDegree, Tail(queue), MapGet(adjacency, current, <<>>))
       IN  /\ sorted' = Append(sorted, current)
           /\ inDegree' = after.inDegree
           /\ queue' = after.queue
    /\ UNCHANGED << mcp, cq, recipes, pc, asked, req, targetRecipe, allRecipes, outputToRecipe,
                    craftableItems, visited, pathStack, stack, rootIdx, adjacency,
                    toRange, sortedBottomUp, sortedTopDown, demandIdx, demand,
                    craftRuns, resp, err, prev >>

\* the comparison turned around: a short order is let through
TopoCycleTooLong(order, craftable) ==
    Len(order) > Cardinality(DOMAIN craftable)

\* if len(sorted) != len(craftable): cycle detected
TopoCycle(order, craftable) ==
    Len(order) # Cardinality(DOMAIN craftable)

\* the copy of the order left as it is, not reversed
NotReversed(seq) ==
    seq

Reverse(seq) ==
    [n \in 1..Len(seq) |-> seq[Len(seq) + 1 - n]]

\* topologicalSort returns; on success the demand pass is set up
TopoReturn ==
    /\ pc = "topoLoop"
    /\ queue = <<>>
    /\ IF TopoCycle(sorted, craftableItems)
          THEN /\ err' = ErrTopoCycle
               /\ pc' = "done"
               /\ UNCHANGED << sortedBottomUp, sortedTopDown, demand, craftRuns, demandIdx >>
          ELSE /\ sortedBottomUp' = sorted
               /\ sortedTopDown' = Reverse(sorted)
               /\ demand' = MapPut(EmptyMap, targetRecipe.Output.ItemID, req.Quantity)
               /\ craftRuns' = EmptyMap
               /\ demandIdx' = 1
               /\ pc' = "demand"
               /\ err' = err
    /\ UNCHANGED << mcp, cq, recipes, asked, req, targetRecipe, allRecipes, outputToRecipe,
                    craftableItems, visited, pathStack, stack, rootIdx, inDegree,
                    adjacency, toRange, queue, sorted, resp, prev >>

(***************************************************************************)
(* BillOfMaterials: demand propagation                                     *)
(***************************************************************************)
\* integer division in place of the float64 quotient: the ceiling is lost
RunsNeededTruncated(itemDemand, quantity) ==
    itemDemand \div quantity

\* "one more than the quotient" in place of the ceiling
RunsNeededPlusOne(itemDemand, quantity) ==
    itemDemand \div quantity + 1

\* the quotient turned around: output quantity over demand
RunsNeededInverted(itemDemand, quantity) ==
    (quantity + itemDemand - 1) \div itemDemand

\* int(math.Ceil(float64(itemDemand) / float64(quantity))), for the small
\* non-negative demands and positive quantities of the catalogs, where the
\* float64 quotient rounds up to the integer ceiling
RunsNeeded(itemDemand, quantity) ==
    (itemDemand + quantity - 1) \div quantity

\* demand[comp.ComponentID] += comp.Quantity: the runs are left out
RECURSIVE PropagatePerRun(_, _, _)
PropagatePerRun(dem, comps, runsNeeded) ==
    IF comps = <<>>
       THEN dem
       ELSE PropagatePerRun(MapPut(dem, Head(comps).ComponentID,
                                   MapGet(dem, Head(comps).ComponentID, 0)
                                      + Head(comps).Quantity),
                            Tail(comps), runsNeeded)

\* demand[comp.ComponentID] = runsNeeded * comp.Quantity: assigned, not added
RECURSIVE PropagateAssign(_, _, _)
PropagateAssign(dem, comps, runsNeeded) ==
    IF comps = <<>>
       THEN dem
       ELSE PropagateAssign(MapPut(dem, Head(comps).ComponentID,
                                   runsNeeded * Head(comps).Quantity),
                            Tail(comps), runsNeeded)

\* demand[comp.ComponentID] += runsNeeded * comp.Quantity, per comp
RECURSIVE Propagate(_, _, _)
Propagate(dem, comps, runsNeeded) ==
    IF comps = <<>>
       THEN dem
       ELSE Propagate(MapPut(dem, Head(comps).ComponentID,
                             MapGet(dem, Head(comps).ComponentID, 0)
                                + runsNeeded * Head(comps).Quantity),
                      Tail(comps), runsNeeded)

\* one iteration of the loop over sortedTopDown
DemandStep ==
    /\ pc = "demand"
    /\ demandIdx <= Len(sortedTopDown)
    /\ LET itemID == sortedTopDown[demandIdx]
           recipe == craftableItems[itemID]
           itemDemand == MapGet(demand, itemID, 0)
           runsNeeded == RunsNeeded(itemDemand, recipe.Output.Quantity)
       IN  IF itemDemand = 0
              THEN UNCHANGED << demand, craftRuns >>
              ELSE /\ craftRuns' = MapPut(craftRuns, itemID, runsNeeded)
                   /\ demand' = Propagate(demand, recipe.Components, runsNeeded)
    /\ demandIdx' = demandIdx + 1
    /\ UNCHANGED << mcp, cq, recipes, pc, asked, req, targetRecipe, allRecipes, outputToRecipe,
                    craftableItems, visited, pathStack, stack, rootIdx, inDegree,
                    adjacency, toRange, queue, sorted, sortedBottomUp, sortedTopDown,
                    resp, err, prev >>

(***************************************************************************)
(* BillOfMaterials: the response                                           *)
(***************************************************************************)
\* sort.Slice by ItemID of the entries gathered from a map: the entries in
\* ascending ItemID order (the ItemIDs are map keys, hence distinct)
RECURSIVE SortByItemID(_)
SortByItemID(entries) ==
    IF entries = {}
       THEN <<>>
       ELSE LET first == CHOOSE e \in entries :
                            \A o \in entries \ {e} : StrLess(e.ItemID, o.ItemID)
            IN  <<first>> \o SortByItemID(entries \ {first})

\* the test craftableItems[itemID] != nil in place of == nil
RawMaterialsOfClosure(dem, craftable) ==
    SortByItemID({ [ItemID |-> itemID, Quantity |-> dem[itemID]] :
                     itemID \in { k \in DOMAIN dem : k \in DOMAIN craftable /\ dem[k] > 0 } })

RawMaterials(dem, craftable) ==
    SortByItemID({ [ItemID |-> itemID, Quantity |-> dem[itemID]] :
                     itemID \in { k \in DOMAIN dem : k \notin DOMAIN craftable /\ dem[k] > 0 } })

\* the loop without its "exclude the target item" test
IntermediatesWithTarget(dem, craftable, runs, target) ==
    SortByItemID({ [ItemID |-> itemID,
                    RecipeID |-> craftable[itemID].ID,
                    CraftRuns |-> MapGet(runs, itemID, 0),
                    TotalProduced |-> MapGet(runs, itemID, 0) * craftable[itemID].Output.Quantity,
                    TotalNeeded |-> MapGet(dem, itemID, 0)] :
                     itemID \in { k \in DOMAIN craftable : MapGet(runs, k, 0) # 0 } })

Intermediates(dem, craftable, runs, target) ==
    SortByItemID({ [ItemID |-> itemID,
                    RecipeID |-> craftable[itemID].ID,
                    CraftRuns |-> MapGet(runs, itemID, 0),
                    TotalProduced |-> MapGet(runs, itemID, 0) * craftable[itemID].Output.Quantity,
                    TotalNeeded |-> MapGet(dem, itemID, 0)] :
                     itemID \in { k \in DOMAIN craftable :
                                    /\ MapGet(runs, k, 0) # 0
                                    /\ k # target.Output.ItemID } })

\* the loop without its runs == 0 test: a step for every item of the order
RECURSIVE CraftStepsOfAll(_, _, _, _)
CraftStepsOfAll(order, craftable, runs, steps) ==
    IF order = <<>>
       THEN steps
       ELSE LET itemID == Head(order)
                recipe == craftable[itemID]
            IN  CraftStepsOfAll(Tail(order), craftable, runs,
                                Append(steps, [StepNumber |-> Len(steps) + 1,
                                               RecipeID |-> recipe.ID,
                                               CraftRuns |-> MapGet(runs, itemID, 0),
                                               OutputItemID |-> recipe.Output.ItemID,
                                               OutputPerRun |-> recipe.Output.Quantity]))

\* the loop over sortedBottomUp that appends the craft steps
RECURSIVE CraftSteps(_, _, _, _)
CraftSteps(order, craftable, runs, steps) ==
    IF order = <<>>
       THEN steps
       ELSE LET itemID == Head(order)
                recipe == craftable[itemID]
            IN  IF MapGet(runs, itemID, 0) = 0
                   THEN CraftSteps(Tail(order), craftable, runs, steps)
                   ELSE CraftSteps(Tail(order), craftable, runs,
                                   Append(steps, [StepNumber |-> Len(steps) + 1,
                                                  RecipeID |-> recipe.ID,
                                                  CraftRuns |-> runs[itemID],
                                                  OutputItemID |-> recipe.Output.ItemID,
                                                  OutputPerRun |-> recipe.Output.Quantity]))

\* totalTime += recipe.CraftTimeSec: each recipe counted once, whatever its runs
RECURSIVE TotalTimeOneRun(_, _, _)
TotalTimeOneRun(keys, craftable, runs) ==
    IF keys = {}
       THEN 0
       ELSE LET itemID == CHOOSE k \in keys : TRUE
            IN  craftable[itemID].CraftTimeSec
                   + TotalTimeOneRun(keys \ {itemID}, craftable, runs)

\* totalTime += recipe.CraftTimeSec * runs, over craftRuns
RECURSIVE TotalTime(_, _, _)
TotalTime(keys, craftable, runs) ==
    IF keys = {}
       THEN 0
       ELSE LET itemID == CHOOSE k \in keys : TRUE
            IN  craftable[itemID].CraftTimeSec * runs[itemID]
                   + TotalTime(keys \ {itemID}, craftable, runs)

\* the demand loop is over: the lists are built and the response returned
Aggregate ==
    /\ pc = "demand"
    /\ demandIdx > Len(sortedTopDown)
    /\ resp' = [RecipeID |-> targetRecipe.ID,
                OutputItemID |-> targetRecipe.Output.ItemID,
                Quantity |-> req.Quantity,
                RawMaterials |-> RawMaterials(demand, craftableItems),
                Intermediates |-> Intermediates(demand, craftableItems, craftRuns, targetRecipe),
                CraftSteps |-> CraftSteps(sortedBottomUp, craftableItems, craftRuns, <<>>),
                TotalCraftTime |-> TotalTime(DOMAIN craftRuns, craftableItems, craftRuns),
                isNil |-> FALSE]
    /\ pc' = "done"
    /\ UNCHANGED << mcp, cq, recipes, asked, req, targetRecipe, allRecipes, outputToRecipe,
                    craftableItems, visited, pathStack, stack, rootIdx, inDegree,
                    adjacency, toRange, queue, sorted, sortedBottomUp, sortedTopDown,
                    demandIdx, demand, craftRuns, err, prev >>

\* the closure and the visited set are fields of the Engine and outlive the call
ReturnKeepingClosure ==
    /\ pc = "done"
    /\ prev' = [asked |-> asked, req |-> req, resp |-> resp, err |-> err]
    /\ pc' = "idle"
    /\ asked' = 0
    /\ req' = NoRequest
    /\ targetRecipe' = NilRecipe
    /\ allRecipes' = {}
    /\ outputToRecipe' = EmptyMap
    /\ pathStack' = {}
    /\ stack' = <<>>
    /\ rootIdx' = 0
    /\ inDegree' = EmptyMap
    /\ adjacency' = EmptyMap
    /\ toRange' = {}
    /\ queue' = <<>>
    /\ sorted' = <<>>
    /\ sortedBottomUp' = <<>>
    /\ sortedTopDown' = <<>>
    /\ demandIdx' = 0
    /\ demand' = EmptyMap
    /\ craftRuns' = EmptyMap
    /\ resp' = NilResponse
    /\ err' = NoError
    /\ UNCHANGED << mcp, cq, recipes, craftableItems, visited >>

\* the call is over: its locals are gone and the caller holds the outcome
Return ==
    /\ pc = "done"
    /\ prev' = [asked |-> asked, req |-> req, resp |-> resp, err |-> err]
    /\ pc' = "idle"
    /\ asked' = 0
    /\ req' = NoRequest
    /\ targetRecipe' = NilRecipe
    /\ allRecipes' = {}
    /\ outputToRecipe' = EmptyMap
    /\ craftableItems' = EmptyMap
    /\ visited' = {}
    /\ pathStack' = {}
    /\ stack' = <<>>
    /\ rootIdx' = 0
    /\ inDegree' = EmptyMap
    /\ adjacency' = EmptyMap
    /\ toRange' = {}
    /\ queue' = <<>>
    /\ sorted' = <<>>
    /\ sortedBottomUp' = <<>>
    /\ sortedTopDown' = <<>>
    /\ demandIdx' = 0
    /\ demand' = EmptyMap
    /\ craftRuns' = EmptyMap
    /\ resp' = NilResponse
    /\ err' = NoError
    /\ UNCHANGED << mcp, cq, recipes >>

Next ==
    \/ Call
    \/ LoadAll
    \/ SelectStep
    \/ SelectDone
    \/ DfsVisit
    \/ DfsReturn
    \/ DfsDone
    \/ TopoBuild
    \/ TopoFindReady
    \/ TopoDequeue
    \/ TopoReturn
    \/ DemandStep
    \/ Aggregate
    \/ Return

Spec ==
    Init /\ [][Next]_vars

\* the steps of a call in progress: BillOfMaterials is one synchronous function
\* call, which runs on once it is made; only the next call is up to the caller
Progress ==
    \/ LoadAll
    \/ SelectStep
    \/ SelectDone
    \/ DfsVisit
    \/ DfsReturn
    \/ DfsDone
    \/ TopoBuild
    \/ TopoFindReady
    \/ TopoDequeue
    \/ TopoReturn
    \/ DemandStep
    \/ Aggregate
    \/ Return

\* the catalogs of the runs checked for termination: the two literal ones
\* and those of the pool with room for one more recipe
FairCatalogs ==
    { c \in Catalogs : Cardinality(c) <= MaxRecipes - 1 }
       \cup {ScannerCatalog, OverrideCatalog}

InitFair ==
    /\ Init
    /\ recipes \in FairCatalogs

SpecFair ==
    InitFair /\ [][Next]_vars /\ WF_vars(Progress)

(***************************************************************************)
(* The catalog's writers.  BulkInsertRecipes and ClearRecipes each run in  *)
(* one transaction on a connection of their own (the database is opened in *)
(* WAL mode, so a writer does not wait for readers), and commit at any     *)
(* point between two queries of a BillOfMaterials call, none of which runs *)
(* in a transaction.  The reads of one db function (GetRecipe: the row,    *)
(* then its components; GetAllRecipes: the rows, then each row's           *)
(* components) are kept together in Call and LoadAll.                      *)
(***************************************************************************)
\* the recipes a writer inserts: craft_b comes in two versions
WriterPool ==
    { Recipe("craft_a", 3, << RecipeComponent("item_b", 1),
                              RecipeComponent("item_c", 7) >>, "item_a", 1),
      Recipe("craft_b", 2, << RecipeComponent("ore_x", 3) >>, "item_b", 1),
      Recipe("craft_b", 1, << RecipeComponent("ore_y", 1) >>, "item_b", 1) }

\* a table's rows have distinct ids
DistinctIDs(rows) ==
    \A r1, r2 \in rows : r1.ID = r2.ID => r1 = r2

\* the locals of the call and the caller's view of the latest outcome
callVars ==
    << pc, asked, req, targetRecipe, allRecipes, outputToRecipe, craftableItems,
       visited, pathStack, stack, rootIdx, inDegree, adjacency, toRange, queue,
       sorted, sortedBottomUp, sortedTopDown, demandIdx, demand, craftRuns,
       resp, err, prev >>

InitWriters ==
    /\ Init
    /\ recipes \subseteq WriterPool
    /\ DistinctIDs(recipes)

\* INSERT OR REPLACE of each recipe of the batch with its components; the
\* replaced row's components go with it (ON DELETE CASCADE)
BulkInsertRecipes ==
    /\ \E batch \in SUBSET WriterPool :
         /\ batch # {}
         /\ DistinctIDs(batch)
         /\ recipes' = { r \in recipes : \A b \in batch : b.ID # r.ID } \cup batch
    /\ UNCHANGED << mcp, cq, callVars >>

\* DELETE FROM recipes
ClearRecipes ==
    /\ recipes' = {}
    /\ UNCHANGED << mcp, cq, callVars >>

NextWriters ==
    \/ Next
    \/ BulkInsertRecipes
    \/ ClearRecipes

SpecWriters ==
    InitWriters /\ [][NextWriters]_vars

(***************************************************************************)
(* Engine.CraftQuery.  The request's station_id is empty (no profit        *)
(* analysis is attached, profitPerUnit is 0), a float64 ratio is the pair  *)
(* <<numerator, denominator>> it is computed from, and the names and XP    *)
(* figures of a skill gap are left out.                                    *)
(***************************************************************************)
\* Largest quantity of an inventory entry; entries range over 0..MaxHave.
MaxHave == 2
\* Largest limit of a request; limits range over 0..MaxLimit.
MaxLimit == 2

\* the recipe_skills rows of a recipe
RecipeSkills(recipeID) ==
    IF recipeID = "craft_a"
       THEN << [SkillID |-> "crafting", LevelRequired |-> 2] >>
       ELSE IF recipeID = "forge_b"
               THEN << [SkillID |-> "crafting", LevelRequired |-> 1] >>
               ELSE <<>>

\* recipes.category
RecipeCategory(recipeID) ==
    IF recipeID \in {"quick_a", "craft_c", "alt_c"} THEN "Refining" ELSE "Components"

InventoryItems ==
    {"ore_x", "item_b", "item_c"}

\* buildInventoryMap of the request's components (distinct ids)
Inventories ==
    UNION { [S -> 0..MaxHave] : S \in SUBSET InventoryItems }

\* the request's skills map
AgentSkills ==
    { EmptyMap, [s \in {"crafting"} |-> 1], [s \in {"crafting"} |-> 2] }

ValidStrategies ==
    { "MAXIMIZE_PROFIT", "MAXIMIZE_VOLUME", "OPTIMIZE_CRAFT_PATH",
      "USE_INVENTORY_FIRST", "MINIMIZE_ACQUISITION" }

CraftQueryDefaults(request) ==
    [request EXCEPT
        !.Limit = IF @ <= 0 THEN 20 ELSE @,
        !.MinMatchRatio = IF @[1] <= 0 THEN <<1, 4>> ELSE @,
        !.Strategy = IF @ \in ValidStrategies THEN @ ELSE "USE_INVENTORY_FIRST"]

\* SELECT DISTINCT recipe_id FROM recipe_components WHERE component_id IN (...)
FindRecipesByComponents(componentIDs) ==
    IF componentIDs = {}
       THEN {}
       ELSE { r.ID : r \in { x \in recipes :
                               \E n \in DOMAIN x.Components :
                                  x.Components[n].ComponentID \in componentIDs } }

\* SELECT id FROM recipes WHERE category = ?
ListRecipesByCategory(category) ==
    { r.ID : r \in { x \in recipes : RecipeCategory(x.ID) = category } }

\* candidateIDs: the recipes found by component, merged without duplicates
\* with those of the category when a filter is set
CandidateIDs(request) ==
    FindRecipesByComponents(DOMAIN request.Components)
       \cup (IF request.CategoryFilter # ""
                THEN ListRecipesByCategory(request.CategoryFilter)
                ELSE {})

\* the loop of calculateComponentMatch over the components still to visit
RECURSIVE ComponentMatchLoop(_, _, _)
ComponentMatchLoop(comps, inventory, acc) ==
    IF comps = <<>>
       THEN acc
       ELSE LET c == Head(comps)
                available == MapGet(inventory, c.ComponentID, 0)
                thisCanCraft == available \div c.Quantity
            IN  ComponentMatchLoop(Tail(comps), inventory,
                   IF available >= c.Quantity
                      THEN [acc EXCEPT
                              !.have = Append(@, RecipeComponent(c.ComponentID, c.Quantity)),
                              !.canCraft = IF @ < 0 \/ thisCanCraft < @
                                              THEN thisCanCraft ELSE @]
                      ELSE IF available > 0
                              THEN [have |-> Append(acc.have,
                                                    RecipeComponent(c.ComponentID, available)),
                                    missing |-> Append(acc.missing,
                                                       RecipeComponent(c.ComponentID,
                                                                       c.Quantity - available)),
                                    canCraft |-> 0]
                              ELSE [acc EXCEPT
                                      !.missing = Append(@, RecipeComponent(c.ComponentID,
                                                                            c.Quantity)),
                                      !.canCraft = 0])

calculateComponentMatch(recipe, inventory) ==
    IF Len(recipe.Components) = 0
       THEN [have |-> <<>>, missing |-> <<>>, canCraft |-> 0]
       ELSE LET out == ComponentMatchLoop(recipe.Components, inventory,
                                          [have |-> <<>>, missing |-> <<>>, canCraft |-> -1])
            IN  [out EXCEPT !.canCraft = IF @ < 0 THEN 0 ELSE @]

calculateMatchRatio(have, total) ==
    IF total = 0 THEN <<0, 1>> ELSE <<have, total>>

\* matchRatio == 1.0
RatioIsOne(ratio) ==
    ratio[1] = ratio[2]

\* a >= b on ratios with positive denominators
RatioAtLeast(a, b) ==
    a[1] * b[2] >= b[1] * a[2]

\* the skill gaps of checkSkillRequirements; ready is "no gap"
checkSkillRequirements(recipeID, agentSkills) ==
    LET required == RecipeSkills(recipeID)
        short(n) == MapGet(agentSkills, required[n].SkillID, 0) < required[n].LevelRequired
    IN  { [SkillID |-> required[n].SkillID,
           CurrentLevel |-> MapGet(agentSkills, required[n].SkillID, 0),
           RequiredLevel |-> required[n].LevelRequired] :
            n \in { m \in DOMAIN required : short(m) } }

\* the body of the loop over candidateIDs for one recipe: the list the recipe
\* goes to ("none" when it is dropped) and its entry there
Categorize(recipe, request) ==
    LET match == calculateComponentMatch(recipe, request.Components)
        matchRatio == calculateMatchRatio(Len(match.have), Len(recipe.Components))
        skillGaps == checkSkillRequirements(recipe.ID, request.Skills)
        skillsReady == skillGaps = {}
        partial == [Recipe |-> recipe,
                    ComponentsHave |-> match.have,
                    ComponentsMissing |-> match.missing,
                    MatchRatio |-> matchRatio,
                    SkillsReady |-> skillsReady,
                    SkillsMissing |-> skillGaps]
    IN  IF request.CategoryFilter # "" /\ RecipeCategory(recipe.ID) # request.CategoryFilter
           THEN [list |-> "none", entry |-> <<>>]
        ELSE IF RatioIsOne(matchRatio) /\ skillsReady
           THEN [list |-> "craftable",
                 entry |-> [Recipe |-> recipe, CanCraftQuantity |-> match.canCraft]]
        ELSE IF RatioIsOne(matchRatio) /\ ~skillsReady
           THEN [list |-> "blockedBySkills", entry |-> partial]
        ELSE IF request.IncludePartial /\ RatioAtLeast(matchRatio, request.MinMatchRatio)
           THEN [list |-> "partialComponents", entry |-> partial]
        ELSE [list |-> "none", entry |-> <<>>]

\* the entries appended to one of the three lists
Appended(request, list) ==
    { c.entry : c \in { x \in { Categorize(CHOOSE r \in GetRecipe(id) : TRUE, request) :
                                   id \in CandidateIDs(request) } : x.list = list } }

\* the less function of sortCraftable (profitPerUnit is 0 without a station)
CraftableLess(strategy, a, b) ==
    IF strategy = "MAXIMIZE_PROFIT" THEN FALSE
    ELSE IF strategy = "OPTIMIZE_CRAFT_PATH"
       THEN Len(a.Recipe.Components) < Len(b.Recipe.Components)
    ELSE a.CanCraftQuantity > b.CanCraftQuantity

\* the less function of sortPartial
PartialLess(strategy, a, b) ==
    IF strategy = "MAXIMIZE_PROFIT" THEN FALSE
    ELSE IF strategy = "MINIMIZE_ACQUISITION"
       THEN Len(a.ComponentsMissing) < Len(b.ComponentsMissing)
    ELSE IF strategy = "OPTIMIZE_CRAFT_PATH"
       THEN Len(a.Recipe.Components) < Len(b.Recipe.Components)
    ELSE ~RatioAtLeast(b.MatchRatio, a.MatchRatio)

\* sort.Slice is not stable and the candidates come in the order of a query
\* without ORDER BY: any order of the entries in which no entry is less than
\* one before it
sortCraftable(entries, strategy) ==
    { o \in Orders(entries) :
        \A m, n \in DOMAIN o : m < n => ~CraftableLess(strategy, o[n], o[m]) }

sortPartial(entries, strategy) ==
    { o \in Orders(entries) :
        \A m, n \in DOMAIN o : m < n => ~PartialLess(strategy, o[n], o[m]) }

\* the slice bound off by one: list[:req.Limit+1]
ApplyLimitKeepingOne(list, limit) ==
    IF Len(list) > limit THEN SubSeq(list, 1, limit + 1) ELSE list

\* if len(list) > req.Limit { list = list[:req.Limit] }
ApplyLimit(list, limit) ==
    IF Len(list) > limit THEN SubSeq(list, 1, limit) ELSE list

\* one craft_query call, from the decoded request to the response
CraftQuery ==
    /\ cq = NoQuery
    /\ \E components \in Inventories, skills \in AgentSkills,
          includePartial \in BOOLEAN, minMatchRatio \in { <<0, 1>>, <<1, 2>> },
          strategy \in ValidStrategies \cup {""}, categoryFilter \in {"", "Refining"},
          limit \in -1..MaxLimit :
         LET request == CraftQueryDefaults(
                           [Components |-> components, Skills |-> skills,
                            IncludePartial |-> includePartial,
                            MinMatchRatio |-> minMatchRatio, Strategy |-> strategy,
                            CategoryFilter |-> categoryFilter, Limit |-> limit])
         IN  \E craftable \in sortCraftable(Appended(request, "craftable"), request.Strategy),
                partialComponents \in sortPartial(Appended(request, "partialComponents"),
                                                  request.Strategy),
                blockedBySkills \in sortPartial(Appended(request, "blockedBySkills"),
                                                request.Strategy) :
                cq' = [asked |-> limit, req |-> request,
                       resp |-> [Craftable |-> ApplyLimit(craftable, request.Limit),
                                 PartialComponents |-> ApplyLimit(partialComponents,
                                                                  request.Limit),
                                 BlockedBySkills |-> ApplyLimit(blockedBySkills,
                                                                request.Limit),
                                 TotalRecipesChecked |-> Cardinality(CandidateIDs(request)),
                                 ComponentsProvided |-> Cardinality(DOMAIN components),
                                 StrategyUsed |-> request.Strategy]]
    /\ UNCHANGED << mcp, recipes, callVars >>

\* the response has gone to the caller
CraftQueryReturn ==
    /\ cq # NoQuery
    /\ cq' = NoQuery
    /\ UNCHANGED << mcp, recipes, callVars >>

\* catalogs with recipes whose components are inventory items
CraftQueryCatalogs ==
    { OverrideCatalog,
      { r \in RecipePool : r.ID \in {"craft_b", "forge_b", "craft_c"} } }

InitCraftQuery ==
    /\ Init
    /\ recipes \in CraftQueryCatalogs

NextCraftQuery ==
    \/ CraftQuery
    \/ CraftQueryReturn

SpecCraftQuery ==
    InitCraftQuery /\ [][NextCraftQuery]_vars

(***************************************************************************)
(* Notions the properties are stated with, defined on the catalog alone.   *)
(***************************************************************************)
Producers(itemID) ==
    { r \in recipes : r.Output.ItemID = itemID }

\* r1 comes before r2 in the documented selection order: shortest craft time,
\* then highest output quantity, then lexicographically first recipe id
Preferred(r1, r2) ==
    \/ r1.CraftTimeSec < r2.CraftTimeSec
    \/ /\ r1.CraftTimeSec = r2.CraftTimeSec
       /\ r1.Output.Quantity > r2.Output.Quantity
    \/ /\ r1.CraftTimeSec = r2.CraftTimeSec
       /\ r1.Output.Quantity = r2.Output.Quantity
       /\ StrLess(r1.ID, r2.ID)

\* the canonical recipe of a producible item
Canonical(itemID) ==
    CHOOSE r \in Producers(itemID) : \A o \in Producers(itemID) \ {r} : Preferred(r, o)

ComponentIDs(r) ==
    { r.Components[n].ComponentID : n \in 1..Len(r.Components) }

\* the items the canonical recipe of itemID consumes (none for a raw material)
Requires(itemID) ==
    IF Producers(itemID) = {} THEN {} ELSE ComponentIDs(Canonical(itemID))

\* the items reachable from the items of S through canonical recipes, S included
RECURSIVE Reach(_)
Reach(S) ==
    LET more == S \cup UNION { Requires(x) : x \in S }
    IN  IF more = S THEN S ELSE Reach(more)

\* itemID transitively requires itself
OnCycle(itemID) ==
    itemID \in Reach(Requires(itemID))

\* following canonical recipes from the components of r, some item requires itself
CycleReachable(r) ==
    \E y \in Reach(ComponentIDs(r)) : OnCycle(y)

IsCycleError(e) ==
    e.msg \in { ErrDfsCycle("").msg, ErrTopoCycle.msg }

\* the call has returned a plan
Planned ==
    pc = "done" /\ err = NoError

SeqToSet(seq) ==
    { seq[n] : n \in DOMAIN seq }

RecipeByID(id) ==
    CHOOSE r \in recipes : r.ID = id

\* the quantity of itemID in the raw materials of a response, 0 when not listed
RawQuantity(response, itemID) ==
    LET entries == { e \in SeqToSet(response.RawMaterials) : e.ItemID = itemID }
    IN  IF entries = {} THEN 0 ELSE (CHOOSE e \in entries : TRUE).Quantity

StepsProducing(response, itemID) ==
    { s \in SeqToSet(response.CraftSteps) : s.OutputItemID = itemID }

(***************************************************************************)
(* The MCP server over stdio: Server.Run, handleRequest, handleToolsCall   *)
(***************************************************************************)
\* Longest input stream, in lines.
MaxLines == 2

ErrCodeParse == -32700

ErrCodeMethodNotFound == -32601

ErrCodeInternal == -32603

\* the methods NewServer registers in s.handlers
handlers ==
    {"initialize", "tools/list", "tools/call"}

JSONNumber(text) ==
    [type |-> "number", text |-> text]

JSONString(text) ==
    [type |-> "string", text |-> text]

\* the id members of the request lines: none, numbers, a string
JSONIDs ==
    { NoValue, JSONNumber("7"), JSONString("req-1"), JSONNumber("9007199254740993") }

\* a JSON number decoded into an any field is a float64, written back by
\* json.Marshal as that float64: the nearest one, so an integer beyond 2^53
\* comes back rounded
Float64Text(text) ==
    IF text = "9007199254740993" THEN "9007199254740992" ELSE text

\* the value json.Unmarshal stores in Request.ID
DecodeID(id) ==
    IF id.type = "number" THEN JSONNumber(Float64Text(id.text)) ELSE id

\* the params members of the tools/call lines: none, an object naming no
\* tool of the server, bill_of_materials with arguments that do not decode,
\* bill_of_materials with a recipe_id and quantity 1
ToolsCallParams ==
    { NoParams,
      [kind |-> "object", name |-> "no_such_tool", arguments |-> "absent",
       recipe_id |-> "", quantity |-> 0],
      [kind |-> "object", name |-> "bill_of_materials", arguments |-> "invalid",
       recipe_id |-> "", quantity |-> 0] }
       \cup { [kind |-> "object", name |-> "bill_of_materials", arguments |-> "object",
               recipe_id |-> id, quantity |-> 1] : id \in RequestIDs }

\* a line that is not JSON
MalformedLine ==
    [wellFormed |-> FALSE, id |-> NoValue, method |-> NoValue, params |-> NoParams]

RequestLine(id, method, params) ==
    [wellFormed |-> TRUE, id |-> id, method |-> method, params |-> params]

\* the lines of the input streams: not JSON; a request whose method is a
\* registered one, an unregistered one, or a number; tools/call requests
Lines ==
    {MalformedLine}
       \cup { RequestLine(id, method, NoParams) :
                 id \in JSONIDs,
                 method \in { JSONString("initialize"), JSONString("tools/list"),
                              JSONString("ping"), JSONNumber("5") } }
       \cup { RequestLine(JSONNumber("7"), JSONString("tools/call"), params) :
                 params \in ToolsCallParams }

Inputs ==
    UNION { [1..n -> Lines] : n \in 0..MaxLines }

\* json.Unmarshal(data, &req): an error for a line that is not JSON and for a
\* member of the wrong type (Method is a string)
UnmarshalRequest(line) ==
    IF ~line.wellFormed \/ line.method.type = "number"
       THEN [err |-> TRUE, ID |-> NoValue, Method |-> "", Params |-> NoParams]
       ELSE [err |-> FALSE, ID |-> DecodeID(line.id), Method |-> line.method.text,
             Params |-> line.params]

ErrInvalidParams ==
    ServerError("invalid params: ", [msg |-> "json", arg |-> ""])

ErrToolCallFailed(cause) ==
    ServerError("tool call failed: ", cause)

ErrUnknownTool(name) ==
    [msg |-> "unknown tool: %s", arg |-> name]

ErrUnmarshalArguments ==
    [msg |-> "json", arg |-> ""]

\* the Response of handleRequest for a handler's (result, err)
HandlerResponse(id, result, e) ==
    IF e # NoServerError
       THEN [ID |-> id, Result |-> NilResult,
             Error |-> [Code |-> ErrCodeInternal, Message |-> e]]
       ELSE [ID |-> id, Result |-> result, Error |-> NilRPCError]

\* the request goes to Engine.BillOfMaterials: tools/call naming
\* bill_of_materials with params and arguments that decode
CallsEngine(request) ==
    /\ ~request.err
    /\ request.Method = "tools/call"
    /\ request.Params.kind = "object"
    /\ request.Params.name = "bill_of_materials"
    /\ request.Params.arguments = "object"

\* handleRequest, for a request that does not reach the engine
handleRequest(request) ==
    IF request.err
       THEN [ID |-> NoValue, Result |-> NilResult,
             Error |-> [Code |-> ErrCodeParse,
                        Message |-> ServerError("Parse error", NoError)]]
    ELSE IF request.Method \notin handlers
       THEN [ID |-> request.ID, Result |-> NilResult,
             Error |-> [Code |-> ErrCodeMethodNotFound,
                        Message |-> ServerError("Method not found: ",
                                                [msg |-> "%s", arg |-> request.Method])]]
    ELSE IF request.Method = "initialize"
       THEN HandlerResponse(request.ID, [kind |-> "InitializeResult", text |-> NilResponse],
                            NoServerError)
    ELSE IF request.Method = "tools/list"
       THEN HandlerResponse(request.ID, [kind |-> "ToolsListResult", text |-> NilResponse],
                            NoServerError)
    ELSE IF request.Params.kind # "object"
       THEN HandlerResponse(request.ID, NilResult, ErrInvalidParams)
    ELSE IF request.Params.name # "bill_of_materials"
       THEN HandlerResponse(request.ID, NilResult,
                            ErrToolCallFailed(ErrUnknownTool(request.Params.name)))
    ELSE HandlerResponse(request.ID, NilResult, ErrToolCallFailed(ErrUnmarshalArguments))

\* Run is called, with its input stream
RunStart ==
    /\ mcp = NotRunning
    /\ \E input \in Inputs :
         mcp' = [NotRunning EXCEPT !.pc = "read", !.stdin = input]
    /\ UNCHANGED << cq, recipes, callVars >>

\* line, err := reader.ReadBytes('\n') with a line to read
ReadLine ==
    /\ mcp.pc = "read"
    /\ mcp.stdin # <<>>
    /\ mcp' = [mcp EXCEPT !.pc = "handle",
                          !.line = Head(mcp.stdin),
                          !.stdin = Tail(mcp.stdin),
                          !.seen = Append(mcp.seen, Head(mcp.stdin))]
    /\ UNCHANGED << cq, recipes, callVars >>

\* ReadBytes returns io.EOF: Run returns nil
ReadEOF ==
    /\ mcp.pc = "read"
    /\ mcp.stdin = <<>>
    /\ mcp' = [mcp EXCEPT !.pc = "returned"]
    /\ UNCHANGED << cq, recipes, callVars >>

\* case <-ctx.Done(): Run returns ctx.Err()
RunCancelled ==
    /\ mcp.pc = "read"
    /\ mcp' = [mcp EXCEPT !.pc = "returned"]
    /\ UNCHANGED << cq, recipes, callVars >>

\* resp := s.handleRequest(ctx, line), up to the response or, for a
\* bill_of_materials call, up to the call of the engine
HandleRequest ==
    /\ mcp.pc = "handle"
    /\ LET request == UnmarshalRequest(mcp.line) IN
         IF CallsEngine(request)
            THEN mcp' = [mcp EXCEPT !.pc = "tool"]
            ELSE mcp' = [mcp EXCEPT !.pc = "write", !.resp = handleRequest(request)]
    /\ UNCHANGED << cq, recipes, callVars >>

\* toolBillOfMaterials: s.engine.BillOfMaterials(ctx, req) with the decoded
\* arguments
ToolBillOfMaterials ==
    /\ mcp.pc = "tool"
    /\ Call
    /\ asked' = mcp.line.params.quantity
    /\ req'.RecipeID = mcp.line.params.recipe_id

\* the engine is about to return: handleToolsCall and handleRequest build the
\* Response from its (result, err)
ToolsCallResult ==
    /\ mcp.pc = "tool"
    /\ pc = "done"
    /\ mcp' = [mcp EXCEPT
                 !.pc = "respond",
                 !.resp = HandlerResponse(
                             UnmarshalRequest(mcp.line).ID,
                             [kind |-> "ToolCallResult", text |-> resp],
                             IF err # NoError THEN ErrToolCallFailed(err)
                                              ELSE NoServerError)]
    /\ UNCHANGED << cq, recipes, callVars >>

\* Engine.BillOfMaterials returns to the server
EngineReturn ==
    /\ mcp.pc = "respond"
    /\ Return

\* s.writeResponse(writer, resp): the members that are not nil, as one line
WriteResponse ==
    /\ \/ mcp.pc = "write"
       \/ mcp.pc = "respond" /\ pc = "idle"
    /\ mcp' = [mcp EXCEPT
                 !.pc = "read",
                 !.line = NoLine,
                 !.resp = NilRPCResponse,
                 !.stdout = Append(mcp.stdout, [id |-> mcp.resp.ID,
                                                result |-> mcp.resp.Result,
                                                error |-> mcp.resp.Error])]
    /\ UNCHANGED << cq, recipes, callVars >>

\* an acyclic catalog and one with a cycle
ServerCatalogs ==
    { { r \in RecipePool : r.ID \in {"craft_a", "craft_b", "craft_c"} },
      { r \in RecipePool : r.ID \in {"craft_a", "loop_b"} } }

InitServer ==
    /\ Init
    /\ recipes \in ServerCatalogs

NextServer ==
    \/ RunStart
    \/ ReadLine
    \/ ReadEOF
    \/ RunCancelled
    \/ HandleRequest
    \/ ToolBillOfMaterials
    \/ LoadAll
    \/ SelectStep
    \/ SelectDone
    \/ DfsVisit
    \/ DfsReturn
    \/ DfsDone
    \/ TopoBuild
    \/ TopoFindReady
    \/ TopoDequeue
    \/ TopoReturn
    \/ DemandStep
    \/ Aggregate
    \/ ToolsCallResult
    \/ EngineReturn
    \/ WriteResponse

SpecServer ==
    InitServer /\ [][NextServer]_vars

(***************************************************************************)
(* Properties                                                              *)
(***************************************************************************)

\* C1: for a fixed catalog and fixed (recipe_id, quantity), every call of
\* BillOfMaterials that returns a plan returns the same plan as the call
\* before it with the same arguments, craft_steps order and step numbers
\* included, whatever order the maps are iterated in.
C1_SameArgumentsSamePlan ==
    (Planned /\ prev.err = NoError /\ prev.req = req /\ prev.asked = asked)
       => resp = prev.resp

\* C2: when, following canonical recipes from the target recipe's components,
\* some item transitively requires itself, the call ends with a cycle error
\* and no plan.
C2_CycleRejected ==
    (pc = "done" /\ targetRecipe # NilRecipe /\ CycleReachable(targetRecipe))
       => (IsCycleError(err) /\ resp = NilResponse)

\* a call has ended for a target whose component lies on a cycle that does
\* not pass through the target's own output item
C2_Witness ==
    /\ pc = "done"
    /\ targetRecipe # NilRecipe
    /\ CycleReachable(targetRecipe)
    /\ ~OnCycle(targetRecipe.Output.ItemID)
    /\ IsCycleError(err)

\* C3: when a cycle exists it is the DFS that fails, with the error that
\* names the item at which the cycle was detected, an item of the cycle.
C3_DfsReportsCycleItem ==
    (pc = "done" /\ targetRecipe # NilRecipe /\ CycleReachable(targetRecipe))
       => (err.msg = ErrDfsCycle("").msg /\ OnCycle(err.arg))

ScannerRequest ==
    [RecipeID |-> "craft_scanner_1", Quantity |-> 1]

RECURSIVE PathsVia(_, _)
PathsVia(S, to) ==
    IF S = {}
       THEN 0
       ELSE LET x == CHOOSE y \in S : TRUE
            IN  (IF x = to THEN 1 ELSE PathsVia(Requires(x), to))
                   + PathsVia(S \ {x}, to)

\* the producible items other than the target's output that the target recipe
\* requires via two or more distinct paths
DiamondItems ==
    { x \in Reach(ComponentIDs(targetRecipe)) :
         /\ x # targetRecipe.Output.ItemID
         /\ Producers(x) # {}
         /\ PathsVia(ComponentIDs(targetRecipe), x) >= 2 }

IntermediatesFor(response, itemID) ==
    { e \in SeqToSet(response.Intermediates) : e.ItemID = itemID }

\* C6: in a returned plan every non-target item required via two or more
\* distinct paths has exactly one intermediates entry and exactly one craft
\* step, both with the recipe_id of its canonical recipe, and no two craft
\* steps produce the same item with different recipes.
C6_DiamondOneEntry ==
    Planned =>
       /\ \A x \in DiamondItems :
            /\ Cardinality(IntermediatesFor(resp, x)) = 1
            /\ Cardinality(StepsProducing(resp, x)) = 1
            /\ \A e \in IntermediatesFor(resp, x) : e.RecipeID = Canonical(x).ID
            /\ \A s \in StepsProducing(resp, x) : s.RecipeID = Canonical(x).ID
       /\ \A s1, s2 \in SeqToSet(resp.CraftSteps) :
            s1.OutputItemID = s2.OutputItemID => s1.RecipeID = s2.RecipeID

\* C7: when the selector loop has visited every recipe, in whatever order,
\* each output item of the catalog is mapped to its recipe that comes first
\* in the order (craft time ascending, output quantity descending, recipe id
\* ascending).
C7_SelectorPicksPreferred ==
    (pc = "select" /\ allRecipes = {}) =>
       /\ DOMAIN outputToRecipe = { r.Output.ItemID : r \in recipes }
       /\ \A itemID \in DOMAIN outputToRecipe :
            /\ outputToRecipe[itemID] \in Producers(itemID)
            /\ \A o \in Producers(itemID) \ {outputToRecipe[itemID]} :
                 Preferred(outputToRecipe[itemID], o)

\* the loop is over in a catalog with two recipes of one item that tie on
\* craft time and output quantity
C7_Witness ==
    /\ pc = "select"
    /\ allRecipes = {}
    /\ \E r1, r2 \in recipes :
         /\ r1 # r2
         /\ r1.Output.ItemID = r2.Output.ItemID
         /\ r1.CraftTimeSec = r2.CraftTimeSec
         /\ r1.Output.Quantity = r2.Output.Quantity
         /\ outputToRecipe[r1.Output.ItemID] = r1

\* C8: in a returned plan every component of a craft step's recipe that is in
\* the closure is the output of a step with a smaller step_number, and the
\* step producing the target's output item is the last one.
C8_BottomUpSteps ==
    Planned =>
       /\ \A s \in SeqToSet(resp.CraftSteps) :
            \A c \in ComponentIDs(RecipeByID(s.RecipeID)) :
               c \in DOMAIN craftableItems =>
                  \E t \in StepsProducing(resp, c) : t.StepNumber < s.StepNumber
       /\ \E s \in StepsProducing(resp, resp.OutputItemID) :
            s.StepNumber = Len(resp.CraftSteps)

\* a plan with two steps whose recipes consume raw materials only (both ready
\* at once in topologicalSort) and a step that consumes both
C8_Witness ==
    /\ Planned
    /\ \E s, t, u \in SeqToSet(resp.CraftSteps) :
         /\ s.OutputItemID # t.OutputItemID
         /\ ComponentIDs(RecipeByID(s.RecipeID)) \cap DOMAIN craftableItems = {}
         /\ ComponentIDs(RecipeByID(t.RecipeID)) \cap DOMAIN craftableItems = {}
         /\ {s.OutputItemID, t.OutputItemID} \subseteq ComponentIDs(RecipeByID(u.RecipeID))

\* C9: the closure records the requested target recipe as the producer of the
\* target's output item throughout the call, and in a returned plan the craft
\* step for the response's output_item_id has the requested recipe_id.
C9_TargetRecipeKept ==
    /\ pc \in {"dfs", "topoBuild", "topoLoop", "demand"}
          => craftableItems[targetRecipe.Output.ItemID] = targetRecipe
    /\ Planned
          => \A s \in StepsProducing(resp, resp.OutputItemID) : s.RecipeID = req.RecipeID

\* the requested recipe is not the canonical producer of its output item, and
\* one of its components requires that item through canonical recipes
RequiresOwnOutput(r) ==
    /\ Canonical(r.Output.ItemID) # r
    /\ r.Output.ItemID \in Reach(ComponentIDs(r))

\* C10: a call for a target recipe that is not canonical and transitively
\* requires its own output ends with a cycle error and no plan.
C10_OwnOutputRejected ==
    (pc = "done" /\ targetRecipe # NilRecipe /\ RequiresOwnOutput(targetRecipe))
       => (IsCycleError(err) /\ resp = NilResponse)

\* the call before this one returned a plan for the same recipe_id
PrevPlanForSameRecipe ==
    /\ prev.err = NoError
    /\ ~prev.resp.isNil
    /\ prev.req.RecipeID = req.RecipeID

RawItems(response) ==
    { e.ItemID : e \in SeqToSet(response.RawMaterials) }

C12_NotFoundReturnsAtOnce ==
    (pc # "idle" /\ \A r \in recipes : r.ID # req.RecipeID)
       => /\ pc = "done"
          /\ err = ErrRecipeNotFound(req.RecipeID)
          /\ resp = NilResponse
          /\ targetRecipe = NilRecipe
          /\ allRecipes = {}
          /\ outputToRecipe = EmptyMap
          /\ craftableItems = EmptyMap
          /\ visited = {}
          /\ sorted = <<>>
          /\ demand = EmptyMap
          /\ craftRuns = EmptyMap

\* a call for a recipe_id the catalog lacks has ended, in a catalog that has
\* recipes to load
C12_Witness ==
    /\ pc = "done"
    /\ recipes # {}
    /\ \A r \in recipes : r.ID # req.RecipeID
    /\ err = ErrRecipeNotFound("unknown_recipe")

\* the craft steps of a response without their positions
StepsUnordered(response) ==
    { [RecipeID |-> s.RecipeID, CraftRuns |-> s.CraftRuns,
       OutputItemID |-> s.OutputItemID, OutputPerRun |-> s.OutputPerRun] :
        s \in SeqToSet(response.CraftSteps) }

StepOrder(response) ==
    [n \in DOMAIN response.CraftSteps |-> response.CraftSteps[n].OutputItemID]

\* C13: a quantity <= 0 is replaced by 1 before anything reads it, so the call
\* is a call for quantity 1: it fails only as that call fails, its response
\* has quantity 1, and against the call before it for the same recipe at
\* quantity 1 it returns the same error or the same plan (the same quantity,
\* raw materials, intermediates, total time and craft steps; the whole
\* response is equal whenever both calls put their steps in the same order).
C13_NonPositiveQuantityIsOne ==
    /\ (pc # "idle" /\ asked <= 0) => req.Quantity = 1
    /\ (Planned /\ asked <= 0) => resp.Quantity = 1
    /\ (pc = "done" /\ asked <= 0 /\ prev.asked = 1 /\ prev.req.RecipeID = req.RecipeID)
          => /\ err = prev.err
             /\ [resp EXCEPT !.CraftSteps = <<>>] = [prev.resp EXCEPT !.CraftSteps = <<>>]
             /\ StepsUnordered(resp) = StepsUnordered(prev.resp)
             /\ StepOrder(resp) = StepOrder(prev.resp) => resp = prev.resp

\* a plan for a negative quantity follows a plan for quantity 1 of the same
\* recipe, with two or more craft steps
C13_Witness ==
    /\ Planned
    /\ asked < 0
    /\ prev.asked = 1
    /\ PrevPlanForSameRecipe
    /\ Len(resp.CraftSteps) >= 2
    /\ resp = prev.resp

IntermediateItems(response) ==
    { e.ItemID : e \in SeqToSet(response.Intermediates) }

\* the entries of a list are in strictly ascending item_id order
StrictlyAscending(entries) ==
    \A m, n \in DOMAIN entries :
       m < n => StrLess(entries[m].ItemID, entries[n].ItemID)

\* C14: in a returned plan raw_materials lists exactly the items of positive
\* final demand that have no recipe in the closure, intermediates lists
\* exactly the closure items other than the target's output with nonzero
\* craft_runs, no item is in both lists, and each list is strictly ascending
\* by item_id (hence without repetition).
C14_ListsPartitionAndSorted ==
    Planned =>
       /\ RawItems(resp) = { k \in DOMAIN demand :
                               demand[k] > 0 /\ k \notin DOMAIN craftableItems }
       /\ IntermediateItems(resp) = { k \in DOMAIN craftableItems :
                                        /\ k # resp.OutputItemID
                                        /\ MapGet(craftRuns, k, 0) # 0 }
       /\ RawItems(resp) \cap IntermediateItems(resp) = {}
       /\ StrictlyAscending(resp.RawMaterials)
       /\ StrictlyAscending(resp.Intermediates)

\* a plan with two raw materials and two intermediates
C14_Witness ==
    /\ Planned
    /\ Len(resp.RawMaterials) >= 2
    /\ Len(resp.Intermediates) >= 2
    /\ MapGet(craftRuns, resp.OutputItemID, 0) # 0

\* the sum over the craft steps of a list of the production time of the step's
\* recipe multiplied by the step's craft_runs
RECURSIVE StepsTime(_)
StepsTime(steps) ==
    IF steps = <<>>
       THEN 0
       ELSE RecipeByID(Head(steps).RecipeID).CraftTimeSec * Head(steps).CraftRuns
               + StepsTime(Tail(steps))

\* C15: in a returned plan the craft steps are one per producible item with
\* nonzero craft_runs, the target included, and total_craft_time_sec is the sum
\* over the craft steps of the recipe's production time times the craft_runs.
C15_TotalTimeIsSumOverSteps ==
    Planned =>
       /\ { s.OutputItemID : s \in SeqToSet(resp.CraftSteps) }
             = { k \in DOMAIN craftableItems : MapGet(craftRuns, k, 0) # 0 }
       /\ \A s1, s2 \in SeqToSet(resp.CraftSteps) :
            s1.OutputItemID = s2.OutputItemID => s1 = s2
       /\ resp.TotalCraftTime = StepsTime(resp.CraftSteps)

\* a plan of two or more steps, one of them run twice or more with a recipe
\* that takes time
C15_Witness ==
    /\ Planned
    /\ Len(resp.CraftSteps) >= 2
    /\ \E s \in SeqToSet(resp.CraftSteps) :
         s.CraftRuns >= 2 /\ RecipeByID(s.RecipeID).CraftTimeSec > 0
    /\ resp.TotalCraftTime > 0

\* C16: the target recipe read by GetRecipe and the rows read by
\* GetAllRecipes are one catalog state, also when a writer commits during
\* the call: when GetAllRecipes has returned (no row visited yet), the target
\* recipe is one of its rows, components included.
C16_OneSnapshot ==
    (pc = "select" /\ outputToRecipe = EmptyMap) => targetRecipe \in allRecipes

\* C17: a call that has ended holds either an error and a nil response or no
\* error and a response, and a returned plan is complete: every component of
\* the recipe of every craft step is listed in raw_materials or is the output
\* item of a craft step with a smaller step_number.
C17_ErrorOrCompletePlan ==
    /\ pc = "done" => \/ (err # NoError /\ resp = NilResponse)
                      \/ (err = NoError /\ ~resp.isNil)
    /\ Planned =>
          \A s \in SeqToSet(resp.CraftSteps) :
             \A c \in ComponentIDs(RecipeByID(s.RecipeID)) :
                \/ RawQuantity(resp, c) > 0
                \/ \E u \in StepsProducing(resp, c) : u.StepNumber < s.StepNumber

\* a plan whose last step consumes a raw material and the output of an
\* earlier step
C17_Witness ==
    /\ Planned
    /\ \E s \in SeqToSet(resp.CraftSteps) :
         /\ \E c \in ComponentIDs(RecipeByID(s.RecipeID)) : RawQuantity(resp, c) > 0
         /\ \E c \in ComponentIDs(RecipeByID(s.RecipeID)) :
               \E u \in StepsProducing(resp, c) : u.StepNumber < s.StepNumber

\* between calls the Engine holds nothing of a call: every local is as it
\* was when the Engine was made
NothingKept ==
    /\ asked = 0 /\ req = NoRequest /\ targetRecipe = NilRecipe
    /\ allRecipes = {} /\ outputToRecipe = EmptyMap /\ craftableItems = EmptyMap
    /\ visited = {} /\ pathStack = {} /\ stack = <<>> /\ rootIdx = 0
    /\ inDegree = EmptyMap /\ adjacency = EmptyMap /\ toRange = {}
    /\ queue = <<>> /\ sorted = <<>> /\ sortedBottomUp = <<>> /\ sortedTopDown = <<>>
    /\ demandIdx = 0 /\ demand = EmptyMap /\ craftRuns = EmptyMap
    /\ resp = NilResponse /\ err = NoError

\* the outcome of this call against that of the call before it
SameOutcomeAsPrev ==
    /\ err = prev.err
    /\ [resp EXCEPT !.CraftSteps = <<>>] = [prev.resp EXCEPT !.CraftSteps = <<>>]
    /\ StepsUnordered(resp) = StepsUnordered(prev.resp)
    /\ StepOrder(resp) = StepOrder(prev.resp) => resp = prev.resp

\* C18: no step of a call changes the catalog; between calls the Engine holds
\* nothing of the calls made so far, so every call starts from the state of a
\* first call; and a call that follows a call with the same arguments ends
\* with the same error or the same plan (the whole response is equal whenever
\* both calls put their steps in the same order).
C18_ReadOnlyAndStateless ==
    [][ /\ recipes' = recipes
        /\ pc' = "idle" => NothingKept'
        /\ (pc' = "done" /\ prev'.req = req' /\ prev' # NoOutcome) => SameOutcomeAsPrev'
      ]_vars

\* a plan of two or more steps has been returned by a call that follows a
\* call with the same arguments
C18_Witness ==
    /\ Planned
    /\ prev.req = req
    /\ prev.err = NoError
    /\ resp = prev.resp
    /\ Len(resp.CraftSteps) >= 2

\* the inventory holds the required quantity of every component of a recipe
HasAllComponents(recipe, inventory) ==
    \A n \in DOMAIN recipe.Components :
       MapGet(inventory, recipe.Components[n].ComponentID, 0) >= recipe.Components[n].Quantity

\* the agent's skills reach every level the recipe requires
MeetsSkills(recipeID, agentSkills) ==
    \A n \in DOMAIN RecipeSkills(recipeID) :
       MapGet(agentSkills, RecipeSkills(recipeID)[n].SkillID, 0)
          >= RecipeSkills(recipeID)[n].LevelRequired

\* C19: every entry of the craftable list of a craft_query response is a
\* recipe for which the inventory holds at least the required quantity of each
\* component and the skills meet every requirement, with can_craft_quantity
\* at least 1.
C19_CraftableIsCraftable ==
    cq # NoQuery =>
       \A n \in DOMAIN cq.resp.Craftable :
          LET m == cq.resp.Craftable[n]
          IN  /\ HasAllComponents(m.Recipe, cq.req.Components)
              /\ MeetsSkills(m.Recipe.ID, cq.req.Skills)
              /\ m.CanCraftQuantity >= 1

\* the quantity of itemID one run of recipe r consumes, 0 when r does not
QuantityIn(r, itemID) ==
    LET at == { n \in DOMAIN r.Components : r.Components[n].ComponentID = itemID }
    IN  IF at = {} THEN 0 ELSE r.Components[CHOOSE n \in at : TRUE].Quantity

\* the sum over the craft steps of a list of craft_runs times the quantity of
\* itemID the step's recipe consumes
RECURSIVE ConsumedBy(_, _)
ConsumedBy(steps, itemID) ==
    IF steps = <<>>
       THEN 0
       ELSE Head(steps).CraftRuns * QuantityIn(RecipeByID(Head(steps).RecipeID), itemID)
               + ConsumedBy(Tail(steps), itemID)

\* C20: in a returned plan the total_needed of every intermediate and the
\* quantity of every raw material is the sum, over the closure items whose
\* recipe consumes it (those with craft_runs, each with its craft step), of
\* craft_runs times the component quantity; an item of the closure or of the
\* demand that appears in neither list, other than the target's output, has
\* that sum 0; and the target's demand is the requested quantity.
C20_DemandIsSumOverConsumers ==
    Planned =>
       /\ \A e \in SeqToSet(resp.Intermediates) :
            e.TotalNeeded = ConsumedBy(resp.CraftSteps, e.ItemID)
       /\ \A e \in SeqToSet(resp.RawMaterials) :
            e.Quantity = ConsumedBy(resp.CraftSteps, e.ItemID)
       /\ \A x \in (DOMAIN craftableItems \cup DOMAIN demand) \ {resp.OutputItemID} :
            /\ MapGet(demand, x, 0) = ConsumedBy(resp.CraftSteps, x)
            /\ (x \notin RawItems(resp) \cup IntermediateItems(resp))
                  => ConsumedBy(resp.CraftSteps, x) = 0
       /\ demand[resp.OutputItemID] = req.Quantity

\* a plan in which an intermediate and a raw material are each consumed by
\* two craft steps
C20_Witness ==
    /\ Planned
    /\ \E e \in SeqToSet(resp.Intermediates) :
         Cardinality({ s \in SeqToSet(resp.CraftSteps) :
                         QuantityIn(RecipeByID(s.RecipeID), e.ItemID) > 0 }) >= 2
    /\ \E e \in SeqToSet(resp.RawMaterials) :
         Cardinality({ s \in SeqToSet(resp.CraftSteps) :
                         QuantityIn(RecipeByID(s.RecipeID), e.ItemID) > 0 }) >= 2

\* the closure items whose recipe consumes itemID
Consumers(itemID) ==
    { k \in DOMAIN craftableItems : QuantityIn(craftableItems[k], itemID) > 0 }

\* C21: at every step of the top-down demand pass, every closure item whose
\* recipe consumes the item being processed is earlier in the order (already
\* processed), and the step leaves the demand of every item with recorded
\* craft_runs as it was.
C21_ConsumersProcessedFirst ==
    [][ (pc = "demand" /\ demandIdx <= Len(sortedTopDown)) =>
           /\ \A c \in Consumers(sortedTopDown[demandIdx]) :
                 \E n \in 1..(demandIdx - 1) : sortedTopDown[n] = c
           /\ \A k \in DOMAIN craftRuns :
                 MapGet(demand', k, 0) = MapGet(demand, k, 0)
      ]_vars

\* the pass is about to compute the craft_runs of an item with demand that two
\* closure items consume
C21_Witness ==
    /\ pc = "demand"
    /\ demandIdx <= Len(sortedTopDown)
    /\ Cardinality(Consumers(sortedTopDown[demandIdx])) >= 2
    /\ MapGet(demand, sortedTopDown[demandIdx], 0) > 0
    /\ DOMAIN craftRuns # {}

\* the items with a recipe that the target recipe's components reach through
\* canonical recipes
ReachableProducible ==
    { x \in Reach(ComponentIDs(targetRecipe)) : Producers(x) # {} }

\* C22: when the DFS has finished, the closure holds exactly the target's
\* output item and the items with a recipe reachable from the target recipe's
\* components through canonical recipes, each reachable item mapped to its
\* canonical recipe (the target's output, when not reachable, to the target
\* recipe); and at no time does the closure hold an item without a recipe.
C22_ClosureIsReachableSet ==
    /\ pc = "topoBuild" =>
          /\ DOMAIN craftableItems
                = {targetRecipe.Output.ItemID} \cup ReachableProducible
          /\ \A x \in ReachableProducible : craftableItems[x] = Canonical(x)
          /\ targetRecipe.Output.ItemID \notin ReachableProducible
                => craftableItems[targetRecipe.Output.ItemID] = targetRecipe
    /\ \A x \in DOMAIN craftableItems : Producers(x) # {}

\* the DFS has finished with a closure item that is not a component of the
\* target recipe, below a raw material that ends the traversal
C22_Witness ==
    /\ pc = "topoBuild"
    /\ \E x \in DOMAIN craftableItems :
         /\ x # targetRecipe.Output.ItemID
         /\ x \notin ComponentIDs(targetRecipe)
    /\ \E y \in visited : Producers(y) = {}

NoRepeat(seq) ==
    \A m, n \in DOMAIN seq : m # n => seq[m] # seq[n]

\* C23: when the DFS has completed without error and the Kahn loop is over,
\* the order lists every closure member exactly once, so topologicalSort's own
\* cycle failure is not reached.
C23_SortCoversClosure ==
    (pc = "topoLoop" /\ queue = <<>> /\ err = NoError)
       => /\ NoRepeat(sorted)
          /\ SeqToSet(sorted) = DOMAIN craftableItems
          /\ ~TopoCycle(sorted, craftableItems)

\* C24: a call, once made, ends with a plan or an error, whatever the catalog;
\* on the way the DFS descends into an item only if it has not visited it
\* (the visited set only grows), and the Kahn loop appends each closure item to
\* the order at most once.
C24_CallTerminates ==
    /\ (pc # "idle") ~> (pc = "done" /\ (Planned \/ (err # NoError /\ resp = NilResponse)))
    /\ [][ (pc = "dfs" /\ pc' = "dfs") =>
              /\ visited \subseteq visited'
              /\ Len(stack') > Len(stack) => stack'[Len(stack')].itemID \notin visited
         ]_vars
    /\ [](NoRepeat(sorted) /\ SeqToSet(sorted) \subseteq DOMAIN craftableItems)

\* a call over a catalog with a cycle has returned, the DFS having visited
\* at least two items and the Kahn loop having stopped short of the closure
C24_Witness ==
    /\ pc = "done"
    /\ err = ErrTopoCycle
    /\ Cardinality(visited) >= 2
    /\ Len(sorted) < Cardinality(DOMAIN craftableItems)

\* the positions of the craft steps whose output item is itemID
StepsFor(response, itemID) ==
    { n \in DOMAIN response.CraftSteps : response.CraftSteps[n].OutputItemID = itemID }

\* C25: in a returned plan the craft steps are numbered 1, 2, ..., k in order;
\* one step is for the target's output item; each intermediates entry has one
\* step, with the entry's recipe_id and craft_runs; there is no other step.
C25_StepsAgreeWithIntermediates ==
    Planned =>
       /\ \A n \in DOMAIN resp.CraftSteps : resp.CraftSteps[n].StepNumber = n
       /\ Cardinality(StepsFor(resp, resp.OutputItemID)) = 1
       /\ \A e \in SeqToSet(resp.Intermediates) :
             /\ Cardinality(StepsFor(resp, e.ItemID)) = 1
             /\ \A n \in StepsFor(resp, e.ItemID) :
                   /\ resp.CraftSteps[n].RecipeID = e.RecipeID
                   /\ resp.CraftSteps[n].CraftRuns = e.CraftRuns
       /\ \A n \in DOMAIN resp.CraftSteps :
             \/ resp.CraftSteps[n].OutputItemID = resp.OutputItemID
             \/ \E e \in SeqToSet(resp.Intermediates) :
                   e.ItemID = resp.CraftSteps[n].OutputItemID

\* a plan with two intermediates, so three steps, has been returned
C25_Witness ==
    /\ Planned
    /\ Len(resp.Intermediates) >= 2
    /\ Len(resp.CraftSteps) >= 3

\* every component quantity and output quantity of the catalog is positive
QuantitiesPositive ==
    \A r \in recipes :
       /\ r.Output.Quantity > 0
       /\ \A n \in DOMAIN r.Components : r.Components[n].Quantity > 0

\* C26: with positive quantities, when the plan is returned every closure
\* item has demand >= 1 and craft_runs >= 1, and there are as many craft steps
\* as closure members.
C26_NoClosureItemSkipped ==
    (Planned /\ QuantitiesPositive) =>
       /\ \A k \in DOMAIN craftableItems :
             /\ MapGet(demand, k, 0) >= 1
             /\ MapGet(craftRuns, k, 0) >= 1
       /\ Len(resp.CraftSteps) = Cardinality(DOMAIN craftableItems)

\* the craft_runs of the step for itemID in a response, 0 when it has no step
StepRuns(response, itemID) ==
    LET steps == StepsProducing(response, itemID)
    IN  IF steps = {} THEN 0 ELSE (CHOOSE s \in steps : TRUE).CraftRuns

\* C27: a plan is at least the plan returned before it for the same recipe_id
\* and a requested quantity not larger: craft_runs of every step, quantity of
\* every raw material, and total_craft_time_sec.
C27_MonotoneInQuantity ==
    (Planned /\ PrevPlanForSameRecipe /\ prev.asked <= asked) =>
       /\ \A s \in SeqToSet(prev.resp.CraftSteps) :
             StepRuns(resp, s.OutputItemID) >= s.CraftRuns
       /\ \A e \in SeqToSet(prev.resp.Intermediates) :
             \E f \in SeqToSet(resp.Intermediates) :
                f.ItemID = e.ItemID /\ f.CraftRuns >= e.CraftRuns
       /\ \A e \in SeqToSet(prev.resp.RawMaterials) :
             RawQuantity(resp, e.ItemID) >= e.Quantity
       /\ resp.TotalCraftTime >= prev.resp.TotalCraftTime

\* a plan for a larger quantity has been returned after a plan for the same
\* recipe, with more runs of an intermediate and more of a raw material
C27_Witness ==
    /\ Planned
    /\ PrevPlanForSameRecipe
    /\ prev.asked >= 1
    /\ prev.asked < asked
    /\ \E e \in SeqToSet(prev.resp.Intermediates) :
          \E f \in SeqToSet(resp.Intermediates) :
             f.ItemID = e.ItemID /\ f.CraftRuns > e.CraftRuns
    /\ \E e \in SeqToSet(prev.resp.RawMaterials) :
          RawQuantity(resp, e.ItemID) > e.Quantity
    /\ resp.TotalCraftTime > prev.resp.TotalCraftTime

\* the recipe ids of the entries of one list of a craft_query response
ListedIDs(list) ==
    { e.Recipe.ID : e \in SeqToSet(list) }

\* the limit in force for a received limit: 20 when it is not positive
LimitInForce(limit) ==
    IF limit <= 0 THEN 20 ELSE limit

\* C28: in a craft_query response no recipe is in two of the lists craftable,
\* partial_components and blocked_by_skills, and each list has at most limit
\* entries, limit being 20 when the received limit is <= 0.
C28_ListsDisjointAndLimited ==
    cq # NoQuery =>
       /\ ListedIDs(cq.resp.Craftable) \cap ListedIDs(cq.resp.PartialComponents) = {}
       /\ ListedIDs(cq.resp.Craftable) \cap ListedIDs(cq.resp.BlockedBySkills) = {}
       /\ ListedIDs(cq.resp.PartialComponents) \cap ListedIDs(cq.resp.BlockedBySkills) = {}
       /\ cq.req.Limit = LimitInForce(cq.asked)
       /\ Len(cq.resp.Craftable) <= LimitInForce(cq.asked)
       /\ Len(cq.resp.PartialComponents) <= LimitInForce(cq.asked)
       /\ Len(cq.resp.BlockedBySkills) <= LimitInForce(cq.asked)

\* a response with limit 1 in which two recipes matched partially and one is
\* listed, next to a craftable recipe
C28_Witness ==
    /\ cq # NoQuery
    /\ cq.asked = 1
    /\ Cardinality(Appended(cq.req, "partialComponents")) >= 2
    /\ Len(cq.resp.PartialComponents) = 1
    /\ cq.resp.Craftable # <<>>

\* the handler of a request line fails without reaching the engine, or the
\* engine is asked for a recipe the catalog does not have
HandlerFails(line) ==
    /\ line.wellFormed
    /\ line.method = JSONString("tools/call")
    /\ \/ line.params.kind # "object"
       \/ line.params.name # "bill_of_materials"
       \/ line.params.arguments # "object"
       \/ GetRecipe(line.params.recipe_id) = {}

\* C29: the server has written one response for every line it has read but
\* the one in hand, in the order of the lines; each response carries the id
\* of its request and has a result or an error, not both and not neither; the
\* error code is -32700 for a line that is not JSON, -32601 for a method that
\* is not registered, and -32603 when the handler fails, an engine error
\* (recipe not found, cycle) included.
C29_OneResponsePerLine ==
    /\ Len(mcp.stdout) = Len(mcp.seen) - (IF mcp.pc \in {"off", "read", "returned"} THEN 0 ELSE 1)
    /\ \A n \in DOMAIN mcp.stdout :
          LET line == mcp.seen[n]
              written == mcp.stdout[n]
          IN  /\ written.id = line.id
              /\ (written.result = NilResult) # (written.error = NilRPCError)
              /\ ~line.wellFormed => written.error.Code = ErrCodeParse
              /\ (line.wellFormed /\ line.method.type = "string"
                     /\ line.method.text \notin handlers)
                    => written.error.Code = ErrCodeMethodNotFound
              /\ HandlerFails(line) => written.error.Code = ErrCodeInternal
              /\ written.error.Message.cause \in {ErrTopoCycle} \cup
                                                 { ErrRecipeNotFound(id) : id \in RequestIDs }
                    => written.error.Code = ErrCodeInternal

====
